---- MODULE Spec2Model ----
(***************************************************************************)
(* A model of the memory-management and trap-dispatch core of the RPOS     *)
(* kernel: the stack frame allocator, the SV39 page table                  *)
(* (src/mm/page_table.rs) and the views made from its token, the buffer   *)
(* translation, the trap handler (src/trap/mod.rs), the write and exit     *)
(* system calls (src/syscall), UPSafeCell (src/sync.rs) and the boot       *)
(* (src/main.rs).                                                          *)
(*                                                                         *)
(* Number representation.  The kernel's usize is 64 bits wide; every       *)
(* number of this model stays below 2^31.  A mask of w >= 31 bits          *)
(* therefore keeps every value of the model (MaskBits).  Registers hold    *)
(* 64-bit patterns, written by their signed reading: -1 is the pattern     *)
(* 0xFFFF_FFFF_FFFF_FFFF, so the casts isize -> usize -> isize keep the     *)
(* number.                                                                 *)
(***************************************************************************)
EXTENDS Integers, Sequences, FiniteSets, TLC

VARIABLES
    current,    \* frame allocator: the allocation frontier
    recycled,   \* frame allocator: the recycle list (a stack)
    mem,        \* physical memory: frame -> index -> page-table entry bits
    pt,         \* the owning page table: NoTable or [root_ppn, frames]
    held,       \* FrameTrackers held outside any page table
    last,       \* the last memory operation, its arguments and its outcome
    machine,    \* "running", "off" (firmware shut down), "idle" (wfi loop)
    cx,         \* the TrapContext of the trap being handled
    scause,     \* the trap cause the hardware reports
    phase,      \* where the trap handling stands
    entry,      \* the TrapContext as it was at trap entry
    call,       \* the syscall dispatch made for this trap, if any
    ret,        \* the value the syscall returned
    out,        \* what was written to the console since trap entry
    returned,   \* whether trap_handler returned its context
    kmem,       \* the bytes of the kernel buffer sys_write reads
    tbb,        \* the last translated_byte_buffer call and its result
    view,       \* a page table made by from_token: NoTable or [root_ppn, frames]
    cell,       \* the UPSafeCell around the frame allocator: its borrow state
    boot        \* rust_main: the step it stands at and what it has done

memVars == <<current, recycled, mem, pt, held, last>>
trapVars == <<cx, scause, phase, entry, call, ret, out, returned, kmem>>
vars == <<memVars, machine, trapVars, tbb, view, cell, boot>>

----------------------------------------------------------------------------
\* Bounds of the model

\* the first frame past the kernel image (ekernel, rounded up)
StartFrame == 1
\* the number of frames between the kernel image and MEMORY_END
NumFrames == 3
\* the number of FrameTrackers the kernel holds outside a page table
MaxHeld == 1

EndFrame == StartFrame + NumFrames
\* physical memory: the kernel image below StartFrame, the frame pool
AllFrames == 0 .. (EndFrame - 1)

\* the page numbers the operations are called with: 0 and 1 share both
\* directory levels, 512 shares the first level only
VPNs == {0, 1, 512}
\* the <<ppn, flags>> given to map: an allocatable frame with no flag set,
\* and a frame outside the pool with R|W
MapArgs == {<<StartFrame, 0>>, <<9, 6>>}

----------------------------------------------------------------------------
\* Option values

None == [some |-> FALSE]
Some(v) == [some |-> TRUE, val |-> v]

----------------------------------------------------------------------------
\* Bit arithmetic on naturals

Pow2(n) == 2 ^ n

\* x & ((1 << w) - 1); every number of the model is below 2^31
MaskBits(x, w) == IF w >= 31 THEN x ELSE x % Pow2(w)

ShiftRight(x, n) == x \div Pow2(n)
ShiftLeft(x, n) == x * Pow2(n)

BitAt(x, k) == ShiftRight(x, k) % 2

\* a | b and a & b on 8-bit values (PTEFlags is a u8)
BitOr8(a, b) ==
    LET bit(k) == IF BitAt(a, k) = 1 \/ BitAt(b, k) = 1 THEN Pow2(k) ELSE 0
    IN bit(0) + bit(1) + bit(2) + bit(3) + bit(4) + bit(5) + bit(6) + bit(7)

BitAnd8(a, b) ==
    LET bit(k) == IF BitAt(a, k) = 1 /\ BitAt(b, k) = 1 THEN Pow2(k) ELSE 0
    IN bit(0) + bit(1) + bit(2) + bit(3) + bit(4) + bit(5) + bit(6) + bit(7)

----------------------------------------------------------------------------
\* PTEFlags and PageTableEntry

PTE_V == 1
PTE_R == 2
PTE_W == 4
PTE_X == 8
PTE_U == 16
PPN_WIDTH == 44
FLAG_SHIFT == 10

\* PageTableEntry::new: ppn.0 << 10 | flags.bits(); the eight flag bits lie
\* below the shifted page number, so the OR of the two is their sum
PTENew(ppn, flags) == ShiftLeft(ppn, FLAG_SHIFT) + flags

\* PageTableEntry::empty
PTEEmpty == 0

\* PageTableEntry::ppn: bits >> 10 & ((1 << 44) - 1)
PTEPpn(bits) == MaskBits(ShiftRight(bits, FLAG_SHIFT), PPN_WIDTH)

\* PageTableEntry::flags: from_bits(bits as u8), every bit of a u8 is a flag
PTEFlagsOf(bits) == bits % 256

\* PageTableEntry::is_valid
PTEIsValid(bits) == BitAnd8(PTEFlagsOf(bits), PTE_V) # 0

----------------------------------------------------------------------------
\* VirtPageNum::indexes: three 9-bit indices, most significant first

IDX_BITS == 9

Indexes(vpn) ==
    << MaskBits(ShiftRight(vpn, 2 * IDX_BITS), IDX_BITS),
       MaskBits(ShiftRight(vpn, IDX_BITS), IDX_BITS),
       MaskBits(vpn, IDX_BITS) >>

\* the page numbers of the buffers given to translated_byte_buffer
TbbVPNs == {0, 1, 2}

\* the entries of a frame that the page numbers of the model can address
Idx == UNION { {Indexes(v)[i] : i \in 1..3} : v \in VPNs \cup TbbVPNs \cup {3} }

ZeroPage == [i \in Idx |-> PTEEmpty]

----------------------------------------------------------------------------
\* The stack frame allocator (frame_allocator.rs): a frontier and a recycle
\* list.  A kernel state k is [current, recycled, mem, panicked].

\* alloc with the recycled frame read but left on the list
AllocFrom_NoPop(cur, rec) ==
    IF Len(rec) > 0
    THEN [got |-> Some(rec[Len(rec)]), current |-> cur, recycled |-> rec]
    ELSE IF cur = EndFrame
    THEN [got |-> None, current |-> cur, recycled |-> rec]
    ELSE [got |-> Some(cur), current |-> cur + 1, recycled |-> rec]

\* alloc that starts over at the first frame once the frontier is at the end
AllocFrom_Wrap(cur, rec) ==
    IF Len(rec) > 0
    THEN [got |-> Some(rec[Len(rec)]), current |-> cur,
          recycled |-> SubSeq(rec, 1, Len(rec) - 1)]
    ELSE IF cur = EndFrame
    THEN [got |-> Some(StartFrame), current |-> StartFrame + 1, recycled |-> rec]
    ELSE [got |-> Some(cur), current |-> cur + 1, recycled |-> rec]

\* StackFrameAllocator::alloc: pop the recycle list, else take the frontier
\* frame, none once the frontier has reached the end
AllocFrom(cur, rec) ==
    IF Len(rec) > 0
    THEN [got |-> Some(rec[Len(rec)]), current |-> cur,
          recycled |-> SubSeq(rec, 1, Len(rec) - 1)]
    ELSE IF cur = EndFrame
    THEN [got |-> None, current |-> cur, recycled |-> rec]
    ELSE [got |-> Some(cur), current |-> cur + 1, recycled |-> rec]

InSeq(x, q) == \E i \in 1..Len(q) : q[i] = x

\* dealloc without the double-free check
DeallocRejects_NoDoubleFree(cur, rec, ppn) == ppn >= cur

\* StackFrameAllocator::dealloc: the validity check
DeallocRejects(cur, rec, ppn) == ppn >= cur \/ InSeq(ppn, rec)

\* StackFrameAllocator::dealloc
DeallocFrom(cur, rec, ppn) ==
    IF DeallocRejects(cur, rec, ppn)
    THEN [panicked |-> TRUE, recycled |-> rec]
    ELSE [panicked |-> FALSE, recycled |-> Append(rec, ppn)]

\* a FrameTracker made without clearing the frame
ZeroFill_None(m, ppn) == m

\* FrameTracker::new: the frame's bytes are cleared
ZeroFill(m, ppn) == [m EXCEPT ![ppn] = ZeroPage]

\* frame_alloc: alloc().map(FrameTracker::new)
frame_alloc(k) ==
    LET a == AllocFrom(k.current, k.recycled) IN
    [k |-> [k EXCEPT !.current = a.current, !.recycled = a.recycled,
                     !.mem = IF a.got.some THEN ZeroFill(k.mem, a.got.val)
                             ELSE k.mem],
     got |-> a.got]

\* frame_dealloc, called by FrameTracker's drop
frame_dealloc(k, ppn) ==
    LET d == DeallocFrom(k.current, k.recycled, ppn) IN
    [k EXCEPT !.recycled = d.recycled, !.panicked = d.panicked]

\* dropping a Vec<FrameTracker>: each tracker in order, until one panics
RECURSIVE DropTrackers(_, _)
DropTrackers(k, q) ==
    IF q = <<>> \/ k.panicked THEN k
    ELSE DropTrackers(frame_dealloc(k, Head(q)), Tail(q))

----------------------------------------------------------------------------
\* The page table (page_table.rs).  A walk state w is
\* [k, frames, ppn, allocs]: the kernel state, the table's frame list, the
\* table frame the walk stands on and the results of the walk's frame_alloc
\* calls.

NoTable == [live |-> FALSE, root_ppn |-> 0, frames |-> <<>>]

\* a directory level that installs the new frame without keeping its tracker
\* in the table's frame list
CreateLevel_NoPush(w, idx) ==
    IF w.k.panicked THEN w
    ELSE IF ~PTEIsValid(w.k.mem[w.ppn][idx])
    THEN LET a == frame_alloc(w.k) IN
         IF ~a.got.some
         THEN [w EXCEPT !.k = [a.k EXCEPT !.panicked = TRUE],
                        !.allocs = Append(w.allocs, a.got)]
         ELSE LET m == [a.k.mem EXCEPT ![w.ppn][idx] =
                            PTENew(a.got.val, PTE_V)] IN
              [k |-> [a.k EXCEPT !.mem = m],
               frames |-> w.frames,
               ppn |-> PTEPpn(m[w.ppn][idx]),
               allocs |-> Append(w.allocs, a.got)]
    ELSE [w EXCEPT !.ppn = PTEPpn(w.k.mem[w.ppn][idx])]

\* one directory level of find_pte_create (lines 102-112)
CreateLevel(w, idx) ==
    IF w.k.panicked THEN w
    ELSE IF ~PTEIsValid(w.k.mem[w.ppn][idx])
    THEN LET a == frame_alloc(w.k) IN
         IF ~a.got.some
         THEN [w EXCEPT !.k = [a.k EXCEPT !.panicked = TRUE],
                        !.allocs = Append(w.allocs, a.got)]
         ELSE LET m == [a.k.mem EXCEPT ![w.ppn][idx] =
                            PTENew(a.got.val, PTE_V)] IN
              [k |-> [a.k EXCEPT !.mem = m],
               frames |-> Append(w.frames, a.got.val),
               ppn |-> PTEPpn(m[w.ppn][idx]),
               allocs |-> Append(w.allocs, a.got)]
    ELSE [w EXCEPT !.ppn = PTEPpn(w.k.mem[w.ppn][idx])]

\* find_pte_create: the walk over the first two levels, then the place of
\* the final-level entry
find_pte_create(k, table, vpn) ==
    LET idxs == Indexes(vpn)
        w0 == [k |-> k, frames |-> table.frames, ppn |-> table.root_ppn,
               allocs |-> <<>>]
        w1 == CreateLevel(w0, idxs[1])
        w2 == CreateLevel(w1, idxs[2])
    IN [w |-> w2, idx |-> idxs[3]]

\* one directory level of find_pte (lines 123-131): None once a level is
\* invalid
FindLevel(r, m, idx) ==
    IF ~r.some THEN r
    ELSE IF ~PTEIsValid(m[r.val][idx]) THEN None
    ELSE Some(PTEPpn(m[r.val][idx]))

\* find_pte: the place [ppn, idx] of the final-level entry, valid or not
find_pte(m, table, vpn) ==
    LET idxs == Indexes(vpn)
        r1 == FindLevel(Some(table.root_ppn), m, idxs[1])
        r2 == FindLevel(r1, m, idxs[2])
    IN IF r2.some THEN Some([ppn |-> r2.val, idx |-> idxs[3]]) ELSE None

\* PageTable::translate: find_pte(vpn).map(|pte| *pte)
translate(m, table, vpn) ==
    LET r == find_pte(m, table, vpn) IN
    IF r.some THEN Some(m[r.val.ppn][r.val.idx]) ELSE None

\* map that writes the flags as given, Valid not forced on
MapOp_NoValid(k, table, vpn, ppn, flags) ==
    LET f == find_pte_create(k, table, vpn)
        w == f.w
    IN IF w.k.panicked THEN [k |-> w.k, frames |-> w.frames, allocs |-> w.allocs]
       ELSE IF PTEIsValid(w.k.mem[w.ppn][f.idx])
       THEN [k |-> [w.k EXCEPT !.panicked = TRUE], frames |-> w.frames,
             allocs |-> w.allocs]
       ELSE [k |-> [w.k EXCEPT !.mem[w.ppn][f.idx] = PTENew(ppn, flags)],
             frames |-> w.frames, allocs |-> w.allocs]

\* map without the assert: a valid entry is overwritten
MapOp_NoAssert(k, table, vpn, ppn, flags) ==
    LET f == find_pte_create(k, table, vpn)
        w == f.w
    IN IF w.k.panicked THEN [k |-> w.k, frames |-> w.frames, allocs |-> w.allocs]
       ELSE [k |-> [w.k EXCEPT !.mem[w.ppn][f.idx] =
                                  PTENew(ppn, BitOr8(flags, PTE_V))],
             frames |-> w.frames, allocs |-> w.allocs]

\* PageTable::map: [k, frames, allocs]; the assert comes after the walk
MapOp(k, table, vpn, ppn, flags) ==
    LET f == find_pte_create(k, table, vpn)
        w == f.w
    IN IF w.k.panicked THEN [k |-> w.k, frames |-> w.frames, allocs |-> w.allocs]
       ELSE IF PTEIsValid(w.k.mem[w.ppn][f.idx])
       THEN [k |-> [w.k EXCEPT !.panicked = TRUE], frames |-> w.frames,
             allocs |-> w.allocs]
       ELSE [k |-> [w.k EXCEPT !.mem[w.ppn][f.idx] =
                                  PTENew(ppn, BitOr8(flags, PTE_V))],
             frames |-> w.frames, allocs |-> w.allocs]

\* PageTable::unmap
UnmapOp(k, table, vpn) ==
    LET r == find_pte(k.mem, table, vpn) IN
    IF ~r.some THEN [k EXCEPT !.panicked = TRUE]
    ELSE IF ~PTEIsValid(k.mem[r.val.ppn][r.val.idx])
    THEN [k EXCEPT !.panicked = TRUE]
    ELSE [k EXCEPT !.mem[r.val.ppn][r.val.idx] = PTEEmpty]

\* PageTable::new: frame_alloc().unwrap()
NewOp(k) ==
    LET a == frame_alloc(k) IN
    IF ~a.got.some
    THEN [k |-> [a.k EXCEPT !.panicked = TRUE], table |-> NoTable, got |-> a.got]
    ELSE [k |-> a.k,
          table |-> [live |-> TRUE, root_ppn |-> a.got.val,
                     frames |-> <<a.got.val>>],
          got |-> a.got]

----------------------------------------------------------------------------
\* The machine: a panic prints and calls shutdown (lang_items.rs), which asks
\* the firmware to power off and waits in a wfi loop if that call returns

ShutdownOutcomes == {"off", "idle"}
Halted == machine \in ShutdownOutcomes

K == [current |-> current, recycled |-> recycled, mem |-> mem,
      panicked |-> FALSE]

\* whether vpn has a valid final-level entry in the table
IsMapped(m, table, vpn) ==
    LET r == find_pte(m, table, vpn) IN
    r.some /\ PTEIsValid(m[r.val.ppn][r.val.idx])

\* the record of an operation: its arguments, whether its page number was
\* mapped when it was called, its result and the results of the frame_alloc
\* calls it made
Op(name, vpn, ppn, flags, wasMapped, res, allocs) ==
    [op |-> name, vpn |-> vpn, ppn |-> ppn, flags |-> flags,
     mapped |-> wasMapped, res |-> res, allocs |-> allocs]

\* the kernel state after an operation; a panic ends in shutdown
Commit(k) ==
    /\ current' = k.current
    /\ recycled' = k.recycled
    /\ mem' = k.mem
    /\ IF k.panicked THEN machine' \in ShutdownOutcomes
       ELSE machine' = machine

\* physical memory at boot is not cleared: entries left by an earlier boot
StaleEntry == PTENew(StartFrame, PTE_V)
StaleMem == [f \in AllFrames |-> [i \in Idx |-> StaleEntry]]

\* the memory state after mm::init
MemInit ==
    /\ current = StartFrame
    /\ recycled = <<>>
    /\ mem = StaleMem
    /\ pt = NoTable
    /\ held = <<>>
    /\ last = Op("boot", 0, 0, 0, FALSE, None, <<>>)

\* kernel code takes a frame: frame_alloc()
FrameAlloc ==
    /\ machine = "running"
    /\ Len(held) < MaxHeld
    /\ LET a == frame_alloc(K) IN
       /\ Commit(a.k)
       /\ held' = IF a.got.some THEN Append(held, a.got.val) ELSE held
       /\ last' = Op("frame_alloc", 0, 0, 0, FALSE, None, <<a.got>>)
    /\ UNCHANGED pt

RemoveAt(q, i) == SubSeq(q, 1, i - 1) \o SubSeq(q, i + 1, Len(q))

\* a FrameTracker goes out of scope
FrameDrop(i) ==
    /\ machine = "running"
    /\ i \in 1..Len(held)
    /\ Commit(frame_dealloc(K, held[i]))
    /\ held' = RemoveAt(held, i)
    /\ last' = Op("frame_drop", 0, held[i], 0, FALSE, None, <<>>)
    /\ UNCHANGED pt

PtNew ==
    /\ machine = "running"
    /\ ~pt.live
    /\ LET n == NewOp(K) IN
       /\ Commit(n.k)
       /\ pt' = n.table
       /\ last' = Op("new", 0, 0, 0, FALSE, None, <<n.got>>)
    /\ UNCHANGED held

\* the page table goes out of scope: its Vec<FrameTracker> is dropped
PtDrop ==
    /\ machine = "running"
    /\ pt.live
    /\ Commit(DropTrackers(K, pt.frames))
    /\ pt' = NoTable
    /\ last' = Op("drop", 0, 0, 0, FALSE, None, <<>>)
    /\ UNCHANGED held

Map(vpn, ppn, flags) ==
    /\ machine = "running"
    /\ pt.live
    /\ LET r == MapOp(K, pt, vpn, ppn, flags) IN
       /\ Commit(r.k)
       /\ pt' = [pt EXCEPT !.frames = r.frames]
       /\ last' = Op("map", vpn, ppn, flags, IsMapped(mem, pt, vpn), None, r.allocs)
    /\ UNCHANGED held

Unmap(vpn) ==
    /\ machine = "running"
    /\ pt.live
    /\ Commit(UnmapOp(K, pt, vpn))
    /\ last' = Op("unmap", vpn, 0, 0, IsMapped(mem, pt, vpn), None, <<>>)
    /\ UNCHANGED <<pt, held>>

Translate(vpn) ==
    /\ machine = "running"
    /\ pt.live
    /\ last' = Op("translate", vpn, 0, 0, IsMapped(mem, pt, vpn),
                translate(mem, pt, vpn), <<>>)
    /\ UNCHANGED <<current, recycled, mem, pt, held, machine>>

MemNext ==
    \/ FrameAlloc
    \/ \E i \in 1..MaxHeld : FrameDrop(i)
    \/ PtNew
    \/ PtDrop
    \/ \E vpn \in VPNs, a \in MapArgs : Map(vpn, a[1], a[2])
    \/ \E vpn \in VPNs : Unmap(vpn)
    \/ \E vpn \in VPNs : Translate(vpn)

----------------------------------------------------------------------------
\* The frame allocator called directly (StackFrameAllocator::alloc and
\* ::dealloc with any frame number)

RawAlloc ==
    /\ machine = "running"
    /\ LET a == AllocFrom(current, recycled) IN
       /\ current' = a.current
       /\ recycled' = a.recycled
       /\ last' = Op("alloc", 0, 0, 0, FALSE, None, <<a.got>>)
    /\ UNCHANGED <<mem, pt, held, machine>>

RawDealloc(ppn) ==
    /\ machine = "running"
    /\ Commit(frame_dealloc(K, ppn))
    /\ last' = Op("dealloc", 0, ppn, 0, FALSE, None, <<>>)
    /\ UNCHANGED <<pt, held>>

\* the frame numbers dealloc is called with: below, inside and past the pool
DeallocArgs == 0 .. EndFrame

FANext ==
    \/ RawAlloc
    \/ \E ppn \in DeallocArgs : RawDealloc(ppn)

----------------------------------------------------------------------------
\* The console and the write system call (syscall/fs.rs)

\* the longest buffer given to sys_write
MaxLen == 3
\* the address of the kernel buffer
BufBase == 64

\* what one print! writes: the bytes of a string, or a kernel log line
Data(bytes) == [log |-> "", bytes |-> bytes]
Log(msg) == [log |-> msg, bytes |-> <<>>]

\* "[Invalid UTF-8]"
Placeholder == <<91, 73, 110, 118, 97, 108, 105, 100, 32, 85, 84, 70, 45, 56, 93>>

IsCont(b, i) == i <= Len(b) /\ b[i] >= 128 /\ b[i] <= 191
InRange(b, i, lo, hi) == i <= Len(b) /\ b[i] >= lo /\ b[i] <= hi

\* core::str::from_utf8(slice).is_ok(), from byte i on
RECURSIVE Utf8From(_, _)
Utf8From(b, i) ==
    IF i > Len(b) THEN TRUE
    ELSE LET c == b[i] IN
         IF c < 128 THEN Utf8From(b, i + 1)
         ELSE IF c >= 194 /\ c <= 223
         THEN IsCont(b, i + 1) /\ Utf8From(b, i + 2)
         ELSE IF c = 224
         THEN InRange(b, i + 1, 160, 191) /\ IsCont(b, i + 2) /\ Utf8From(b, i + 3)
         ELSE IF (c >= 225 /\ c <= 236) \/ c = 238 \/ c = 239
         THEN IsCont(b, i + 1) /\ IsCont(b, i + 2) /\ Utf8From(b, i + 3)
         ELSE IF c = 237
         THEN InRange(b, i + 1, 128, 159) /\ IsCont(b, i + 2) /\ Utf8From(b, i + 3)
         ELSE IF c = 240
         THEN /\ InRange(b, i + 1, 144, 191) /\ IsCont(b, i + 2)
              /\ IsCont(b, i + 3) /\ Utf8From(b, i + 4)
         ELSE IF c >= 241 /\ c <= 243
         THEN /\ IsCont(b, i + 1) /\ IsCont(b, i + 2)
              /\ IsCont(b, i + 3) /\ Utf8From(b, i + 4)
         ELSE IF c = 244
         THEN /\ InRange(b, i + 1, 128, 143) /\ IsCont(b, i + 2)
              /\ IsCont(b, i + 3) /\ Utf8From(b, i + 4)
         ELSE FALSE

Utf8Valid(b) == Utf8From(b, 1)

\* core::slice::from_raw_parts(buf, len)
SliceAt(km, buf, len) == [i \in 1..len |-> km[buf + i - 1]]

\* sys_write without the null-pointer and zero-length check
SysWrite_NoCheck(fd, buf, len, km) ==
    IF fd = 1 \/ fd = 2
    THEN LET slice == SliceAt(km, IF buf = 0 THEN BufBase ELSE buf, len) IN
         [kind |-> "ret", val |-> len,
          out |-> <<Data(IF Utf8Valid(slice) THEN slice ELSE Placeholder)>>]
    ELSE [kind |-> "ret", val |-> -1,
          out |-> <<Log("[KERNEL] Unsupported fd in sys_write!")>>]

\* sys_write that takes every file descriptor for the console
SysWrite_AnyFd(fd, buf, len, km) ==
    IF buf = 0 \/ len = 0
    THEN [kind |-> "ret", val |-> 0, out |-> <<>>]
    ELSE LET slice == SliceAt(km, buf, len) IN
         [kind |-> "ret", val |-> len,
          out |-> <<Data(IF Utf8Valid(slice) THEN slice ELSE Placeholder)>>]

\* sys_write: [kind, val, out], the return value and the console output
SysWrite(fd, buf, len, km) ==
    IF fd = 1 \/ fd = 2
    THEN IF buf = 0 \/ len = 0
         THEN [kind |-> "ret", val |-> 0, out |-> <<>>]
         ELSE LET slice == SliceAt(km, buf, len) IN
              [kind |-> "ret", val |-> len,
               out |-> <<Data(IF Utf8Valid(slice) THEN slice ELSE Placeholder)>>]
    ELSE [kind |-> "ret", val |-> -1,
          out |-> <<Log("[KERNEL] Unsupported fd in sys_write!")>>]

\* sys_read
SysRead(fd, buf, len) == [kind |-> "ret", val |-> 0, out |-> <<>>]

\* sys_exit that returns to the trap handler
SysExit_Returns(code) ==
    [kind |-> "ret", val |-> 0,
     out |-> <<Log("[KERNEL] Application exited with code")>>]

\* sys_exit: prints and calls shutdown, never returns
SysExit(code) ==
    [kind |-> "exit", val |-> 0,
     out |-> <<Log("[KERNEL] Application exited with code")>>]

\* sys_yield, sys_getpid, sys_fork, sys_exec, sys_waitpid
SysYield == [kind |-> "ret", val |-> 0, out |-> <<>>]
SysGetpid == [kind |-> "ret", val |-> 1, out |-> <<>>]
SysFork == [kind |-> "ret", val |-> -1, out |-> <<>>]
SysExec(path) == [kind |-> "ret", val |-> -1, out |-> <<>>]
SysWaitpid(pid, status) == [kind |-> "ret", val |-> -1, out |-> <<>>]

SYSCALL_READ == 63
SYSCALL_WRITE == 64
SYSCALL_EXIT == 93
SYSCALL_YIELD == 124
SYSCALL_GETPID == 172
SYSCALL_FORK == 220
SYSCALL_EXEC == 221
SYSCALL_WAITPID == 260

\* syscall (syscall/mod.rs): the dispatch on the call number; a number
\* without a handler is a panic
Syscall(id, args, km) ==
    CASE id = SYSCALL_READ -> SysRead(args[1], args[2], args[3])
      [] id = SYSCALL_WRITE -> SysWrite(args[1], args[2], args[3], km)
      [] id = SYSCALL_EXIT -> SysExit(args[1])
      [] id = SYSCALL_YIELD -> SysYield
      [] id = SYSCALL_GETPID -> SysGetpid
      [] id = SYSCALL_FORK -> SysFork
      [] id = SYSCALL_EXEC -> SysExec(args[1])
      [] id = SYSCALL_WAITPID -> SysWaitpid(args[1], args[2])
      [] OTHER -> [kind |-> "panic", val |-> 0, out |-> <<>>]

----------------------------------------------------------------------------
\* The trap handler (trap/mod.rs)

\* scause.cause(): the causes trap_handler names and some it does not
Causes == {"UserEnvCall", "StoreFault", "StorePageFault", "LoadFault",
           "LoadPageFault", "IllegalInstruction", "SupervisorTimer",
           "Breakpoint", "InstructionPageFault", "SupervisorExternal"}

\* the match of trap_handler with IllegalInstruction only logged
TrapKind_IllegalLogged(cause) ==
    CASE cause = "UserEnvCall" -> "syscall"
      [] cause \in {"StoreFault", "StorePageFault", "LoadFault", "LoadPageFault"}
            -> "pagefault"
      [] cause \in {"SupervisorTimer", "IllegalInstruction"} -> "timer"
      [] OTHER -> "unsupported"

\* the match of trap_handler (lines 38-63)
TrapKind(cause) ==
    CASE cause = "UserEnvCall" -> "syscall"
      [] cause \in {"StoreFault", "StorePageFault", "LoadFault", "LoadPageFault"}
            -> "pagefault"
      [] cause = "IllegalInstruction" -> "illegal"
      [] cause = "SupervisorTimer" -> "timer"
      [] OTHER -> "unsupported"

Regs == 0..31

\* a TrapContext: sp in x2, the syscall registers x10, x11, x12, x17
Context(a0, a1, a2, a7, pc) ==
    [x |-> [r \in Regs |->
               CASE r = 2 -> 512 [] r = 10 -> a0 [] r = 11 -> a1
                 [] r = 12 -> a2 [] r = 17 -> a7 [] OTHER -> r],
     sstatus |-> 256,
     sepc |-> pc]

NoCall == [some |-> FALSE, id |-> 0, args |-> <<0, 0, 0>>, sepc |-> 0]

\* the trap left sepc where it was
AdvanceSepc_None(c) == c

\* cx.sepc += 4
AdvanceSepc(c) == [c EXCEPT !.sepc = c.sepc + 4]

\* a store of the result that also clears the argument registers
StoreResult_Clobber(c, r) == [c EXCEPT !.x[10] = r, !.x[11] = 0, !.x[12] = 0]

\* cx.x[10] = ... as usize
StoreResult(c, r) == [c EXCEPT !.x[10] = r]

\* the register values user code traps with; x10 is the file descriptor of
\* read and write and the exit code of exit
CallNumbers == {SYSCALL_READ, SYSCALL_WRITE, SYSCALL_EXIT, SYSCALL_YIELD,
                SYSCALL_GETPID, SYSCALL_FORK, SYSCALL_EXEC, SYSCALL_WAITPID, 7}
Arg0s == {0, 1, 2, 99}
Arg1s == {0, BufBase}
Arg2s == 0..MaxLen
Sepcs == {4096, 8200}

\* the contents of the kernel buffer: ASCII; a two-byte character; an
\* invalid first byte; a three-byte character; a surrogate; an overlong
\* form after an ASCII byte; a four-byte character
BufferContents ==
    { <<104, 105, 33, 10, 65>>, <<195, 169, 65, 66, 67>>,
      <<255, 104, 105, 33, 65>>, <<226, 130, 172, 65, 66>>,
      <<237, 160, 128, 65, 66>>, <<65, 192, 128, 66, 67>>,
      <<240, 159, 152, 128, 65>> }

BufferOf(content) == [a \in BufBase .. (BufBase + MaxLen - 1) |-> content[a - BufBase + 1]]

\* no trap has been taken
TrapIdle ==
    /\ cx = Context(0, 0, 0, 0, 4096)
    /\ entry = Context(0, 0, 0, 0, 4096)
    /\ scause = "None"
    /\ phase = "user"
    /\ call = NoCall
    /\ ret = 0
    /\ out = <<>>
    /\ returned = FALSE

\* user code runs and traps: __alltraps saves the context and calls
\* trap_handler
Trap(cause, a0, a1, a2, a7, pc) ==
    /\ machine = "running"
    /\ phase = "user"
    /\ scause' = cause
    /\ cx' = Context(a0, a1, a2, a7, pc)
    /\ entry' = cx'
    /\ phase' = "handler"
    /\ call' = NoCall
    /\ ret' = 0
    /\ out' = <<>>
    /\ returned' = FALSE
    /\ UNCHANGED <<machine, kmem>>

\* line 40
TH_Advance ==
    /\ phase = "handler" /\ TrapKind(scause) = "syscall"
    /\ cx' = AdvanceSepc(cx)
    /\ phase' = "syscall"
    /\ UNCHANGED <<machine, scause, entry, call, ret, out, returned, kmem>>

\* line 41, the call of syscall
TH_Dispatch ==
    /\ phase = "syscall"
    /\ LET id == cx.x[17]
           args == <<cx.x[10], cx.x[11], cx.x[12]>>
           r == Syscall(id, args, kmem)
       IN /\ call' = [some |-> TRUE, id |-> id, args |-> args, sepc |-> cx.sepc]
          /\ ret' = r.val
          /\ out' = out \o r.out
          /\ phase' = CASE r.kind = "ret" -> "store"
                        [] r.kind = "exit" -> "shutdown"
                        [] r.kind = "panic" -> "panic"
    /\ UNCHANGED <<machine, cx, scause, entry, returned, kmem>>

\* line 41, the assignment to cx.x[10]
TH_Store ==
    /\ phase = "store"
    /\ cx' = StoreResult(cx, ret)
    /\ phase' = "return"
    /\ UNCHANGED <<machine, scause, entry, call, ret, out, returned, kmem>>

\* lines 43-49
TH_PageFault ==
    /\ phase = "handler" /\ TrapKind(scause) = "pagefault"
    /\ out' = Append(out, Log("[KERNEL] Page fault"))
    /\ phase' = "panic"
    /\ UNCHANGED <<machine, cx, scause, entry, call, ret, returned, kmem>>

\* lines 50-53
TH_Illegal ==
    /\ phase = "handler" /\ TrapKind(scause) = "illegal"
    /\ out' = Append(out, Log("[KERNEL] Illegal instruction"))
    /\ phase' = "panic"
    /\ UNCHANGED <<machine, cx, scause, entry, call, ret, returned, kmem>>

\* lines 54-56
TH_Timer ==
    /\ phase = "handler" /\ TrapKind(scause) = "timer"
    /\ out' = Append(out, Log("[KERNEL] Timer interrupt"))
    /\ phase' = "return"
    /\ UNCHANGED <<machine, cx, scause, entry, call, ret, returned, kmem>>

\* lines 57-63
TH_Unsupported ==
    /\ phase = "handler" /\ TrapKind(scause) = "unsupported"
    /\ phase' = "panic"
    /\ UNCHANGED <<machine, cx, scause, entry, call, ret, out, returned, kmem>>

\* line 65: the context goes back to the exit path, user code resumes
TH_Return ==
    /\ phase = "return"
    /\ returned' = TRUE
    /\ phase' = "user"
    /\ UNCHANGED <<machine, cx, scause, entry, call, ret, out, kmem>>

\* the panic handler (lang_items.rs): prints, then calls shutdown
Panic ==
    /\ phase = "panic"
    /\ out' = Append(out, Log("[KERNEL PANIC]"))
    /\ phase' = "shutdown"
    /\ UNCHANGED <<machine, cx, scause, entry, call, ret, returned, kmem>>

\* shutdown (sbi/mod.rs): the firmware powers the machine off, or the call
\* returns and the kernel stays in the wfi loop
Shutdown ==
    /\ phase = "shutdown"
    /\ machine' \in ShutdownOutcomes
    /\ phase' = "halted"
    /\ UNCHANGED <<cx, scause, entry, call, ret, out, returned, kmem>>

HandlerStep ==
    \/ TH_Advance
    \/ TH_Dispatch
    \/ TH_Store
    \/ TH_PageFault
    \/ TH_Illegal
    \/ TH_Timer
    \/ TH_Unsupported
    \/ TH_Return
    \/ Panic
    \/ Shutdown

\* an environment call with any of the register values; any other cause
\* with one of them
TrapNext ==
    \/ \E a0 \in Arg0s, a1 \in Arg1s, a2 \in Arg2s, a7 \in CallNumbers,
          pc \in Sepcs : Trap("UserEnvCall", a0, a1, a2, a7, pc)
    \/ \E cause \in Causes \ {"UserEnvCall"}, a7 \in {SYSCALL_WRITE, SYSCALL_EXIT},
          pc \in Sepcs : Trap(cause, 1, BufBase, MaxLen, a7, pc)
    \/ HandlerStep

----------------------------------------------------------------------------
\* Tokens and the translation of user buffers (page_table.rs, address.rs)

PAGE_SIZE_BITS == 12
PAGE_SIZE == 4096
VA_WIDTH == 39
SATP_MODE == 8

\* a 64-bit token, as its bits 44..63 and its bits 0..43
\* PageTable::token: 8usize << 60 | self.root_ppn.0
Token(table) ==
    [hi |-> ShiftLeft(SATP_MODE, 60 - PPN_WIDTH), lo |-> MaskBits(table.root_ppn, PPN_WIDTH)]

\* from_token that takes the root from the token's bits 12 and up
from_token_Shifted(satp) ==
    [live |-> TRUE, root_ppn |-> ShiftRight(satp.lo, PAGE_SIZE_BITS), frames |-> <<>>]

\* PageTable::from_token: the root is satp & ((1 << 44) - 1), no frame owned
from_token(satp) == [live |-> TRUE, root_ppn |-> satp.lo, frames |-> <<>>]

\* VirtAddr::from(usize), VirtAddr::floor, VirtAddr::page_offset,
\* VirtAddr::from(VirtPageNum)
VirtAddrOf(v) == MaskBits(v, VA_WIDTH)
Floor(va) == ShiftRight(va, PAGE_SIZE_BITS)
PageOffset(va) == MaskBits(va, PAGE_SIZE_BITS)
VpnToVa(vpn) == ShiftLeft(vpn, PAGE_SIZE_BITS)

Min(a, b) == IF a < b THEN a ELSE b

\* the slice without the case of an end on a page boundary
TbbSlice_NoEdge(ppn, start_va, end_va) ==
    [ppn |-> ppn, lo |-> PageOffset(start_va), hi |-> PageOffset(end_va)]

\* lines 201-205: the bytes [lo, hi) of frame ppn
TbbSlice(ppn, start_va, end_va) ==
    IF PageOffset(end_va) = 0
    THEN [ppn |-> ppn, lo |-> PageOffset(start_va), hi |-> PAGE_SIZE]
    ELSE [ppn |-> ppn, lo |-> PageOffset(start_va), hi |-> PageOffset(end_va)]

\* the loop of translated_byte_buffer (lines 194-207); ok is FALSE when
\* translate(vpn).unwrap() panics
RECURSIVE TbbLoop(_, _, _, _, _)
TbbLoop(m, table, start, end, v) ==
    IF ~(start < end) THEN [ok |-> TRUE, slices |-> v]
    ELSE LET start_va == VirtAddrOf(start)
             vpn == Floor(start_va)
             t == translate(m, table, vpn)
         IN IF ~t.some THEN [ok |-> FALSE, slices |-> v]
            ELSE LET ppn == PTEPpn(t.val)
                     end_va == Min(VpnToVa(vpn + 1), VirtAddrOf(end))
                 IN TbbLoop(m, table, end_va, end,
                            Append(v, TbbSlice(ppn, start_va, end_va)))

translated_byte_buffer(m, token, ptr, len) ==
    TbbLoop(m, from_token(token), ptr, ptr + len, <<>>)

\* the user pointers and lengths: inside a page, up to a page boundary,
\* across one and across two
TbbPtrs == {0, 1, 4095, 4096, 4097, 8191}
TbbLens == {0, 1, 2, 4095, 4096, 4097, 8192, 8193}

\* the frame a user page is mapped to
TbbFrame(vpn) == 20 - vpn

\* the address space is set up: the table is created, a page is mapped
TbbSetup ==
    /\ \/ PtNew
       \/ \E vpn \in TbbVPNs : Map(vpn, TbbFrame(vpn), PTE_R + PTE_W + PTE_U)
    /\ tbb' = [ptr |-> 0, len |-> 0, ok |-> FALSE, called |-> FALSE,
               slices |-> <<>>]

Tbb(ptr, len) ==
    /\ machine = "running"
    /\ pt.live
    /\ LET r == translated_byte_buffer(mem, Token(pt), ptr, len) IN
       /\ tbb' = [ptr |-> ptr, len |-> len, ok |-> r.ok, called |-> TRUE,
                  slices |-> r.slices]
       /\ machine' \in (IF r.ok THEN {machine} ELSE ShutdownOutcomes)
    /\ UNCHANGED memVars

TbbNext ==
    \/ TbbSetup
    \/ \E ptr \in TbbPtrs, len \in TbbLens : Tbb(ptr, len)

----------------------------------------------------------------------------
\* Views made from a token (PageTable::from_token): a second PageTable value
\* on the root of the owning table, with an empty frame list

PA_WIDTH == 56

\* PhysAddr::from(usize), PhysAddr::from(PhysPageNum)
PhysAddrOf(v) == MaskBits(v, PA_WIDTH)
PpnToPa(ppn) == ShiftLeft(ppn, PAGE_SIZE_BITS)

\* PageTable::translate_va: the entry of va's page, valid or not, gives the
\* frame; the page offset is added to the frame's base address
translate_va(m, table, va) ==
    LET r == find_pte(m, table, Floor(va)) IN
    IF r.some
    THEN Some(PhysAddrOf(PpnToPa(PTEPpn(m[r.val.ppn][r.val.idx])) + PageOffset(va)))
    ELSE None

\* the <<ppn, flags>> given to map when a view is about: a frame of the
\* kernel image with R|W, an allocatable frame with no flag set
ViewMapArgs == {<<0, 6>>, <<StartFrame, 0>>}
\* the addresses translate_va is called with: one in each page of VPNs
ViewVAs == {1, 4097, 2101247}

ViewFromToken ==
    /\ machine = "running"
    /\ pt.live /\ ~view.live
    /\ view' = from_token(Token(pt))
    /\ last' = Op("from_token", 0, 0, 0, FALSE, None, <<>>)
    /\ UNCHANGED <<current, recycled, mem, pt, held, machine>>

\* PageTable::map called on the owning table or on the view
MapVia(who, vpn, ppn, flags) ==
    /\ machine = "running"
    /\ LET table == IF who = "view" THEN view ELSE pt
           r == MapOp(K, table, vpn, ppn, flags)
       IN /\ table.live
          /\ Commit(r.k)
          /\ IF who = "view"
             THEN view' = [view EXCEPT !.frames = r.frames] /\ pt' = pt
             ELSE pt' = [pt EXCEPT !.frames = r.frames] /\ view' = view
          /\ last' = Op(IF who = "view" THEN "view_map" ELSE "map", vpn, ppn,
                        flags, IsMapped(mem, table, vpn), None, r.allocs)
    /\ UNCHANGED held

ViewUnmap(vpn) ==
    /\ machine = "running"
    /\ view.live
    /\ Commit(UnmapOp(K, view, vpn))
    /\ last' = Op("view_unmap", vpn, 0, 0, IsMapped(mem, view, vpn), None, <<>>)
    /\ UNCHANGED <<pt, held, view>>

ViewTranslate(vpn) ==
    /\ machine = "running"
    /\ view.live
    /\ last' = Op("view_translate", vpn, 0, 0, IsMapped(mem, view, vpn),
                  translate(mem, view, vpn), <<>>)
    /\ UNCHANGED <<current, recycled, mem, pt, held, machine, view>>

ViewTranslateVa(va) ==
    /\ machine = "running"
    /\ view.live
    /\ last' = Op("view_translate_va", Floor(va), 0, 0,
                  IsMapped(mem, view, Floor(va)), translate_va(mem, view, va), <<>>)
    /\ UNCHANGED <<current, recycled, mem, pt, held, machine, view>>

\* the view goes out of scope: its Vec<FrameTracker> is dropped
ViewDrop ==
    /\ machine = "running"
    /\ view.live
    /\ Commit(DropTrackers(K, view.frames))
    /\ view' = NoTable
    /\ last' = Op("view_drop", 0, 0, 0, FALSE, None, <<>>)
    /\ UNCHANGED <<pt, held>>

\* the owning table is made, mapped and unmapped, and views of it are made,
\* used and dropped; the owning table outlives its views
ViewNext ==
    \/ PtNew /\ UNCHANGED view
    \/ \E vpn \in VPNs : Unmap(vpn) /\ UNCHANGED view
    \/ ViewFromToken
    \/ \E who \in {"owner", "view"}, vpn \in VPNs, a \in ViewMapArgs :
          MapVia(who, vpn, a[1], a[2])
    \/ \E vpn \in VPNs : ViewUnmap(vpn)
    \/ \E vpn \in VPNs : ViewTranslate(vpn)
    \/ \E va \in ViewVAs : ViewTranslateVa(va)
    \/ ViewDrop

----------------------------------------------------------------------------
\* UPSafeCell (sync.rs): a RefCell, here the one around the frame allocator.
\* borrow is the RefCell's borrow flag (0 unused, negative while mutably
\* borrowed), guards the number of live RefMut values, taken the number of
\* borrows handed out.

\* the number of borrows handed out in one run
MaxBorrows == 2

\* UPSafeCell::new
CellNew == [borrow |-> 0, guards |-> 0, taken |-> 0]

\* a borrow_mut that does not look at the borrow flag
BorrowMut_NoCheck(flag) == [ok |-> TRUE, flag |-> flag - 1]

\* RefCell::borrow_mut: the flag must be unused, else the call panics
BorrowMut(flag) ==
    IF flag = 0 THEN [ok |-> TRUE, flag |-> flag - 1]
    ELSE [ok |-> FALSE, flag |-> flag]

\* the drop of a RefMut
ReleaseMut(flag) == flag + 1

\* UPSafeCell::exclusive_access: self.inner.borrow_mut()
ExclusiveAccess ==
    /\ machine = "running"
    /\ LET r == BorrowMut(cell.borrow) IN
       IF r.ok
       THEN /\ cell.taken < MaxBorrows
            /\ cell' = [borrow |-> r.flag, guards |-> cell.guards + 1,
                        taken |-> cell.taken + 1]
            /\ machine' = machine
       ELSE /\ cell' = cell
            /\ machine' \in ShutdownOutcomes
    /\ last' = Op("exclusive_access", 0, 0, 0, cell.guards > 0, None, <<>>)
    /\ UNCHANGED <<current, recycled, mem, pt, held>>

\* the RefMut goes out of scope
GuardDrop ==
    /\ machine = "running"
    /\ cell.guards > 0
    /\ cell' = [cell EXCEPT !.borrow = ReleaseMut(cell.borrow),
                            !.guards = cell.guards - 1]
    /\ last' = Op("guard_drop", 0, 0, 0, TRUE, None, <<>>)
    /\ UNCHANGED <<current, recycled, mem, pt, held, machine>>

\* the allocator is used through the RefMut; a call made while the borrow
\* is held (a nested trap, a re-entrant call) asks for the cell again
CellNext ==
    \/ ExclusiveAccess
    \/ GuardDrop
    \/ cell.guards > 0 /\ RawAlloc /\ UNCHANGED cell
    \/ \E ppn \in DeallocArgs : cell.guards > 0 /\ RawDealloc(ppn) /\ UNCHANGED cell

----------------------------------------------------------------------------
\* rust_main (main.rs): boot is [pc, steps, bss, heap, stvec], the place in
\* BootOrder of the step to take next, the steps taken so far, and what
\* they set up

\* a boot that runs the kernel's work before memory management is set up
BootOrder_DemosFirst ==
    <<"clear_bss", "run_demos", "init_heap", "init_frame_allocator",
      "trap_init", "shutdown">>

\* the calls of rust_main, those of mm::init in its place (main.rs:37-56,
\* mm/mod.rs:20-21)
BootOrder ==
    <<"clear_bss", "init_heap", "init_frame_allocator", "trap_init",
      "run_demos", "shutdown">>

\* the step rust_main stands at
BootAt(name) == boot.pc <= Len(BootOrder) /\ BootOrder[boot.pc] = name

\* the step is taken
BootAdvance(b, name) == [b EXCEPT !.pc = b.pc + 1, !.steps = Append(b.steps, name)]

\* rust_main is entered: nothing is set up
BootStart == [pc |-> 1, steps |-> <<>>, bss |-> "stale", heap |-> "none",
              stvec |-> "none"]

\* trap::init has returned
Booted == [pc |-> 5, steps |-> SubSeq(BootOrder, 1, 4), bss |-> "zero",
           heap |-> "ready", stvec |-> "__alltraps"]

\* clear_bss()
ClearBss ==
    /\ machine = "running" /\ BootAt("clear_bss")
    /\ boot' = [BootAdvance(boot, "clear_bss") EXCEPT !.bss = "zero"]
    /\ UNCHANGED <<memVars, machine>>

\* heap_allocator::init_heap()
InitHeap ==
    /\ machine = "running" /\ BootAt("init_heap")
    /\ boot' = [BootAdvance(boot, "init_heap") EXCEPT !.heap = "ready"]
    /\ UNCHANGED <<memVars, machine>>

\* frame_allocator::init_frame_allocator(): the pool is the frames from the
\* end of the kernel image to MEMORY_END
InitFrameAllocator ==
    /\ machine = "running" /\ BootAt("init_frame_allocator")
    /\ boot' = BootAdvance(boot, "init_frame_allocator")
    /\ current' = StartFrame
    /\ recycled' = <<>>
    /\ UNCHANGED <<mem, pt, held, last, machine>>

\* trap::init(): stvec is set to __alltraps
InstallTrapVector ==
    /\ machine = "running" /\ BootAt("trap_init")
    /\ boot' = [BootAdvance(boot, "trap_init") EXCEPT !.stvec = "__alltraps"]
    /\ UNCHANGED <<memVars, machine>>

\* the kernel's work between the initialization and the shutdown: the
\* operations on frames and page tables
KernelWork ==
    /\ BootAt("run_demos")
    /\ MemNext
    /\ UNCHANGED boot

\* run_demos() has returned
DemosDone ==
    /\ machine = "running" /\ BootAt("run_demos")
    /\ boot' = BootAdvance(boot, "run_demos")
    /\ UNCHANGED <<memVars, machine>>

\* sbi::shutdown()
BootShutdown ==
    /\ machine = "running" /\ BootAt("shutdown")
    /\ boot' = BootAdvance(boot, "shutdown")
    /\ machine' \in ShutdownOutcomes
    /\ UNCHANGED memVars

\* the steps of rust_main itself
BootStep ==
    \/ ClearBss
    \/ InitHeap
    \/ InitFrameAllocator
    \/ InstallTrapVector
    \/ DemosDone
    \/ BootShutdown

BootNext ==
    \/ BootStep
    \/ KernelWork

----------------------------------------------------------------------------
\* The specifications

NoTbb == [ptr |-> 0, len |-> 0, ok |-> FALSE, called |-> FALSE, slices |-> <<>>]

\* the page table and the frame allocator, tracked frames only
Init ==
    /\ MemInit
    /\ machine = "running"
    /\ TrapIdle
    /\ kmem = BufferOf(<<104, 105, 33, 10, 65>>)
    /\ tbb = NoTbb
    /\ view = NoTable
    /\ cell = CellNew
    /\ boot = Booted

Next == MemNext /\ UNCHANGED <<trapVars, tbb, view, cell, boot>>

Spec == Init /\ [][Next]_vars

\* the frame allocator alone
SpecFA == Init /\ [][FANext /\ UNCHANGED <<trapVars, tbb, view, cell, boot>>]_vars

\* traps and system calls
TrapInit ==
    /\ MemInit
    /\ machine = "running"
    /\ TrapIdle
    /\ kmem \in {BufferOf(c) : c \in BufferContents}
    /\ tbb = NoTbb
    /\ view = NoTable
    /\ cell = CellNew
    /\ boot = Booted

SpecTrap ==
    TrapInit /\ [][TrapNext /\ UNCHANGED <<memVars, tbb, view, cell, boot>>]_vars

\* the translation of user buffers
SpecTbb == Init /\ [][TbbNext /\ UNCHANGED <<trapVars, view, cell, boot>>]_vars

\* an owning page table and a view of it
SpecView == Init /\ [][ViewNext /\ UNCHANGED <<trapVars, tbb, cell, boot>>]_vars

\* the UPSafeCell around the frame allocator
SpecCell == Init /\ [][CellNext /\ UNCHANGED <<trapVars, tbb, view, boot>>]_vars

\* rust_main is entered: the frame allocator is empty
BootInit ==
    /\ current = 0
    /\ recycled = <<>>
    /\ mem = StaleMem
    /\ pt = NoTable
    /\ held = <<>>
    /\ last = Op("boot", 0, 0, 0, FALSE, None, <<>>)
    /\ machine = "running"
    /\ TrapIdle
    /\ kmem = BufferOf(<<104, 105, 33, 10, 65>>)
    /\ tbb = NoTbb
    /\ view = NoTable
    /\ cell = CellNew
    /\ boot = BootStart

\* the boot, from the entry of rust_main on
SpecBoot == BootInit /\ [][BootNext /\ UNCHANGED <<trapVars, tbb, view, cell>>]_vars

\* rust_main runs on: its next step is taken
SpecBootFair ==
    SpecBoot /\ WF_vars(BootStep /\ UNCHANGED <<trapVars, tbb, view, cell>>)

\* the kernel runs on: a handler that has started takes its next step
SpecTrapFair ==
    SpecTrap /\ WF_vars(HandlerStep /\ UNCHANGED <<memVars, tbb, view, cell, boot>>)

----------------------------------------------------------------------------
\* Properties of the page table and the frame allocator, under Spec

\* every live FrameTracker: the page table's and the kernel's own
Handles == pt.frames \o held

\* the flag set f with Valid added
WithValid(f) == IF f % 2 = 1 THEN f ELSE f + 1

\* C1: a map(vpn, ppn, f) that was called with vpn unmapped and returned is
\* followed by translate(vpn) = an entry whose page number is ppn and whose
\* flags are f with Valid added.
C1_MapThenTranslate ==
    (last.op = "map" /\ ~last.mapped /\ machine = "running") =>
        LET t == translate(mem, pt, last.vpn) IN
        /\ t.some
        /\ PTEPpn(t.val) = last.ppn
        /\ PTEFlagsOf(t.val) = WithValid(last.flags)

\* a map with the empty flag set that had to create both directory levels
C1_Witness ==
    /\ last.op = "map" /\ ~last.mapped /\ machine = "running"
    /\ last.flags = 0 /\ Len(last.allocs) = 2
    /\ translate(mem, pt, last.vpn) = Some(PTENew(last.ppn, PTE_V))

\* C2 (as claimed): translate(vpn) returns no result whenever vpn is not
\* mapped, also when the directories exist and the final entry is invalid.
C2_UnmappedTranslatesToNone ==
    (pt.live /\ machine = "running") =>
        \A vpn \in VPNs :
            ~IsMapped(mem, pt, vpn) => ~translate(mem, pt, vpn).some

\* C3: map on a page number with a valid final-level entry, and unmap on one
\* without, end in the halt and change no page-table entry.
C3_Rejected ==
    [][ /\ (last'.op = "map" /\ IsMapped(mem, pt, last'.vpn)) =>
              (mem' = mem /\ machine' \in ShutdownOutcomes)
        /\ (last'.op = "unmap" /\ ~IsMapped(mem, pt, last'.vpn)) =>
              (mem' = mem /\ machine' \in ShutdownOutcomes) ]_vars

\* a map on a mapped page number, with other arguments than the mapping's
C3_Witness ==
    /\ last.op = "map" /\ last.mapped /\ Halted
    /\ LET t == translate(mem, pt, last.vpn) IN
       t.some /\ PTEPpn(t.val) # last.ppn

NoDuplicates(q) == \A i, j \in 1..Len(q) : i # j => q[i] # q[j]

\* the frames the last operation was given by frame_alloc
Allocated(op) == { op.allocs[i].val : i \in {j \in 1..Len(op.allocs) : op.allocs[j].some} }

\* C4: no two live FrameTrackers reference the same frame, no tracked frame
\* is on the recycle list or beyond the frontier, and frame_alloc never
\* returns a frame that a live tracker references.
C4_OneTrackerPerFrame ==
    /\ [](/\ NoDuplicates(Handles)
          /\ \A i \in 1..Len(Handles) :
                /\ ~InSeq(Handles[i], recycled)
                /\ Handles[i] >= StartFrame /\ Handles[i] < current)
    /\ [][\A f \in Allocated(last') : ~InSeq(f, Handles)]_vars

\* a released frame is given out again while other trackers are live
C4_Witness ==
    /\ Len(Handles) >= 2
    /\ \E f \in Allocated(last) : f + 1 < current /\ InSeq(f, Handles)
    /\ machine = "running"

\* C6: frame_alloc returns none when the recycle list is empty and the
\* frontier is at the end, and only then; a frame it returns is below the
\* end, is not referenced by a live tracker and is returned once.
C6_ExhaustionFails ==
    [][ LET rs == last'.allocs IN
        /\ (rs # <<>> /\ recycled = <<>> /\ current = EndFrame) => ~rs[1].some
        /\ \A i \in 1..Len(rs) :
              /\ ~rs[i].some => (recycled' = <<>> /\ current' = EndFrame)
              /\ rs[i].some =>
                    /\ rs[i].val >= StartFrame /\ rs[i].val < EndFrame
                    /\ ~InSeq(rs[i].val, Handles)
                    /\ \A j \in 1..Len(rs) : j # i => rs[j] # rs[i] ]_vars

\* a map whose second directory frame could not be allocated
C6_Witness ==
    /\ last.op = "map" /\ Len(last.allocs) = 2
    /\ last.allocs[1].some /\ ~last.allocs[2].some
    /\ Halted /\ current = EndFrame /\ recycled = <<>>

----------------------------------------------------------------------------
\* Properties of the frame allocator called directly, under SpecFA

Count(x, q) == Cardinality({i \in 1..Len(q) : q[i] = x})

\* C5: dealloc(frame) panics and leaves the recycle list as it was when the
\* frame is at or beyond the frontier or already on the list; otherwise it
\* appends the frame, which is then on the list once.
C5_DeallocChecks ==
    [][ last'.op = "dealloc" =>
        LET p == last'.ppn IN
        IF p >= current \/ (\E i \in 1..Len(recycled) : recycled[i] = p)
        THEN machine' \in ShutdownOutcomes /\ recycled' = recycled
        ELSE /\ machine' = "running"
             /\ recycled' = Append(recycled, p)
             /\ Count(p, recycled') = 1 ]_vars

\* a second dealloc of a frame that is on the recycle list
C5_Witness ==
    /\ last.op = "dealloc" /\ Halted
    /\ last.ppn < current /\ InSeq(last.ppn, recycled)

----------------------------------------------------------------------------
\* Properties of the trap handler and the system calls, under SpecTrap

\* C8: on a user environment call the saved program counter is advanced by 4
\* before the dispatch, the dispatch gets x17 and x10, x11, x12 as they were
\* at trap entry, and x10 holds the dispatch's result when the handler
\* returns.
C8_EnvCallOrder ==
    /\ (scause = "UserEnvCall" /\ (phase # "handler")) =>
            cx.sepc = entry.sepc + 4
    /\ call.some =>
            /\ scause = "UserEnvCall"
            /\ call.id = entry.x[17]
            /\ call.args = <<entry.x[10], entry.x[11], entry.x[12]>>
            /\ call.sepc = entry.sepc + 4
    /\ (scause = "UserEnvCall" /\ phase \in {"syscall", "store"}) =>
            cx.x[10] = entry.x[10]
    /\ (scause = "UserEnvCall" /\ (phase = "return" \/ returned)) =>
            call.some /\ cx.x[10] = ret

\* write(1, buf, 2) is about to return 2 to the caller
C8_Witness ==
    /\ scause = "UserEnvCall" /\ phase = "return"
    /\ call.some /\ call.id = SYSCALL_WRITE /\ call.args = <<1, BufBase, 2>>
    /\ cx.x[10] = 2 /\ entry.x[10] = 1 /\ cx.sepc = entry.sepc + 4

FatalCauses == Causes \ {"UserEnvCall", "SupervisorTimer"}

\* C9: for every cause other than a user environment call and a supervisor
\* timer interrupt the handler dispatches no system call, returns no
\* context, and the machine ends halted.
C9_FatalTraps ==
    /\ [](scause \in FatalCauses =>
            /\ ~call.some
            /\ ~returned
            /\ phase \in {"handler", "panic", "shutdown", "halted"}
            /\ (phase = "halted" => Halted))
    /\ (scause \in FatalCauses ~> Halted)

\* a cause the handler does not name, the firmware call having returned
C9_Witness ==
    scause = "Breakpoint" /\ phase = "halted" /\ machine = "idle" /\ ~returned

\* C10: for fd 1 or 2 sys_write returns 0 and writes nothing when buf is null
\* or len is 0; otherwise it writes the len bytes when they are valid UTF-8
\* and the placeholder when they are not, and returns len.
C10_Write ==
    (call.some /\ call.id = SYSCALL_WRITE /\ call.args[1] \in {1, 2}) =>
        LET buf == call.args[2]
            len == call.args[3]
            bytes == [i \in 1..len |-> kmem[buf + i - 1]]
        IN IF buf = 0 \/ len = 0
           THEN ret = 0 /\ out = <<>>
           ELSE /\ ret = len
                /\ out = <<Data(IF Utf8Valid(bytes) THEN bytes ELSE Placeholder)>>

\* the first byte of a two-byte character alone: the placeholder is written
C10_Witness ==
    /\ call.some /\ call.id = SYSCALL_WRITE /\ call.args = <<2, BufBase, 1>>
    /\ kmem[BufBase] = 195
    /\ out = <<Data(Placeholder)>> /\ ret = 1

----------------------------------------------------------------------------
\* Properties of translated_byte_buffer, under SpecTbb

\* the pages of [ptr, ptr + len)
PagesOf(ptr, len) == { a \div PAGE_SIZE : a \in {ptr, ptr + len - 1} } \cup
                     { p \in 0..3 : ptr < p * PAGE_SIZE /\ p * PAGE_SIZE < ptr + len }

\* the page boundaries strictly inside [ptr, ptr + len)
BoundariesIn(ptr, len) ==
    Cardinality({ p \in 0..4 : ptr < p * PAGE_SIZE /\ p * PAGE_SIZE < ptr + len })

\* the byte of the user address a: its frame and its offset in the frame
ByteAt(a) ==
    [ppn |-> PTEPpn(translate(mem, pt, a \div PAGE_SIZE).val),
     off |-> a % PAGE_SIZE]

\* the bytes of a slice, of a sequence of slices
SliceBytes(sl) == [i \in 1..(sl.hi - sl.lo) |-> [ppn |-> sl.ppn, off |-> sl.lo + i - 1]]

RECURSIVE Concat(_)
Concat(q) == IF q = <<>> THEN <<>> ELSE SliceBytes(Head(q)) \o Concat(Tail(q))

\* C7: for len > 0 and every page of [ptr, ptr + len) mapped,
\* translated_byte_buffer returns slices whose concatenation is the len bytes
\* from ptr on, one slice more than there are page boundaries strictly
\* inside the range, and none of them empty.
C7_BufferSlices ==
    (tbb.called /\ tbb.len > 0
       /\ \A p \in PagesOf(tbb.ptr, tbb.len) : IsMapped(mem, pt, p)) =>
        /\ tbb.ok
        /\ Concat(tbb.slices) = [i \in 1..tbb.len |-> ByteAt(tbb.ptr + i - 1)]
        /\ Len(tbb.slices) = 1 + BoundariesIn(tbb.ptr, tbb.len)
        /\ \A i \in 1..Len(tbb.slices) : tbb.slices[i].hi > tbb.slices[i].lo

\* a buffer over three pages that ends on a page boundary
C7_Witness ==
    /\ tbb.called /\ tbb.ok /\ tbb.ptr = 4095 /\ tbb.len = 8193
    /\ \A p \in TbbVPNs : IsMapped(mem, pt, p)
    /\ tbb.slices = << [ppn |-> TbbFrame(0), lo |-> 4095, hi |-> 4096],
                       [ppn |-> TbbFrame(1), lo |-> 0, hi |-> 4096],
                       [ppn |-> TbbFrame(2), lo |-> 0, hi |-> 4096] >>

\* sys_write's notice for a file descriptor it does not support
Notice == Log("[KERNEL] Unsupported fd in sys_write!")

\* C11 (as claimed): for every fd other than 1 and 2 and every buf and len,
\* sys_write returns -1 and nothing is written to the console.
C11_OtherFdSilent ==
    (call.some /\ call.id = SYSCALL_WRITE /\ call.args[1] \notin {1, 2}) =>
        ret = -1 /\ out = <<>>

\* C11 (amended): for every fd other than 1 and 2 and every buf and len,
\* sys_write returns -1 and writes no byte of the buffer; the one thing it
\* writes to the console is the kernel's unsupported-descriptor notice.
C11_OtherFdNotice ==
    (call.some /\ call.id = SYSCALL_WRITE /\ call.args[1] \notin {1, 2}) =>
        /\ ret = -1
        /\ out = <<Notice>>
        /\ \A i \in 1..Len(out) : out[i].bytes = <<>>

\* write(99, buf, 3) on a readable buffer: -1 is about to be returned
C11_Witness ==
    /\ call.some /\ call.id = SYSCALL_WRITE /\ call.args = <<99, BufBase, MaxLen>>
    /\ phase = "return" /\ cx.x[10] = -1 /\ out = <<Notice>>

\* C12: once sys_exit is called, with any exit code, the handler stores no
\* return value and returns no context, the shutdown call is made and the
\* machine ends powered off or in the wfi loop; a halted machine takes no
\* further step.
C12_ExitHalts ==
    /\ []((call.some /\ call.id = SYSCALL_EXIT) =>
            /\ ~returned
            /\ cx.x[10] = entry.x[10]
            /\ phase \in {"shutdown", "halted"}
            /\ (phase = "halted" => Halted))
    /\ ((call.some /\ call.id = SYSCALL_EXIT) ~> Halted)
    /\ [][~Halted]_vars

\* exit(99), the firmware call having returned: the kernel is in the wfi loop
C12_Witness ==
    /\ call.some /\ call.id = SYSCALL_EXIT /\ call.args[1] = 99
    /\ machine = "idle" /\ phase = "halted" /\ ~returned /\ cx.x[10] = 99

----------------------------------------------------------------------------
\* Properties of token-derived views, under SpecView

ViewOps == {"view_map", "view_unmap", "view_translate", "view_translate_va"}

\* C13 (as claimed): a page table made by from_token owns no frame after any
\* operation called on it (translate, translate_va, map, unmap), and every
\* such operation leaves the frame allocator's state as it was.
C13_ViewNeverAllocates ==
    /\ [](view.live => view.frames = <<>>)
    /\ [][last'.op \in ViewOps =>
            (view'.frames = <<>> /\ current' = current /\ recycled' = recycled)]_vars

----------------------------------------------------------------------------
\* The tree of a page table, under Spec

\* the valid entries of a table frame, and the frames they point to
ValidEntries(m, f) == { m[f][i] : i \in {j \in Idx : PTEIsValid(m[f][j])} }
Children(m, f) == { PTEPpn(e) : e \in ValidEntries(m, f) }

\* the table frames of the second and of the final level
Level1Frames(m, table) == Children(m, table.root_ppn)
Level2Frames(m, table) == UNION { Children(m, f) : f \in Level1Frames(m, table) }

\* the Read, Write and Execute bits of an entry
RWX(bits) == BitAnd8(PTEFlagsOf(bits), PTE_R + PTE_W + PTE_X)

\* C14 (as claimed): whatever flag sets map is called with, every valid entry
\* of the first two levels has Read, Write and Execute clear, and every valid
\* entry of the final level has one of them set.
C14_DirectoryOrLeaf ==
    pt.live =>
        /\ \A e \in ValidEntries(mem, pt.root_ppn) : RWX(e) = 0
        /\ \A f \in Level1Frames(mem, pt) :
              \A e \in ValidEntries(mem, f) : RWX(e) = 0
        /\ \A f \in Level2Frames(mem, pt) :
              \A e \in ValidEntries(mem, f) : RWX(e) # 0

\* the elements of a sequence
Range(q) == { q[i] : i \in 1..Len(q) }

C16_ZeroFilled ==
    [][ /\ last'.op = "frame_alloc" =>
              \A f \in Allocated(last') : mem'[f] = ZeroPage
        /\ (last'.op = "new" /\ pt'.live) =>
              /\ mem'[pt'.root_ppn] = ZeroPage
              /\ \A vpn \in VPNs : translate(mem', pt', vpn) = None
        /\ last'.op = "map" =>
              LET rs == last'.allocs IN
              \A j \in 1..Len(rs) : rs[j].some =>
                  \A i \in Idx :
                      i # Indexes(last'.vpn)[3 - Len(rs) + j] =>
                          mem'[rs[j].val][i] = PTEEmpty ]_vars

\* a table made on a frame that was the final-level frame of a dropped table
C16_Witness ==
    /\ last.op = "new" /\ pt.live /\ machine = "running"
    /\ Len(recycled) >= 2 /\ pt.root_ppn > StartFrame
    /\ \A vpn \in VPNs : translate(mem, pt, vpn) = None

----------------------------------------------------------------------------
\* Properties of UPSafeCell, under SpecCell

\* C17: at most one borrow of the cell is live at a time; exclusive_access
\* called while a borrow is live panics and hands out nothing; called when
\* none is live, also after a release, it hands out the borrow.
C17_OneBorrow ==
    /\ [](cell.guards <= 1 /\ (cell.guards = 1 <=> cell.borrow # 0))
    /\ [][last'.op = "exclusive_access" =>
            IF cell.guards > 0
            THEN machine' \in ShutdownOutcomes /\ cell' = cell
            ELSE machine' = "running" /\ cell'.guards = 1]_vars

\* the cell was borrowed, released and borrowed again, and a call made while
\* the second borrow is live has ended in the halt
C17_Witness ==
    /\ last.op = "exclusive_access" /\ last.mapped /\ Halted
    /\ cell.guards = 1 /\ cell.taken = 2

----------------------------------------------------------------------------
\* Properties of the boot, under SpecBootFair

\* C18: the steps of the boot are taken once each and in the order BSS
\* cleared, heap initialized, frame allocator initialized, trap vector
\* installed, and all four are taken; a frame is allocated only after the
\* heap and the frame allocator are initialized, and the machine is halted
\* only after all four.
C18_BootOrder ==
    /\ [](\A i \in 1..Len(boot.steps) :
            boot.steps[i] = <<"clear_bss", "init_heap", "init_frame_allocator",
                              "trap_init", "run_demos", "shutdown">>[i])
    /\ []((Handles # <<>> \/ \E i \in 1..Len(last.allocs) : last.allocs[i].some) =>
            (InSeq("init_heap", boot.steps)
                /\ InSeq("init_frame_allocator", boot.steps)))
    /\ [](Halted => \A n \in {"clear_bss", "init_heap", "init_frame_allocator",
                              "trap_init"} : InSeq(n, boot.steps))
    /\ <>(InSeq("trap_init", boot.steps))

\* a boot that allocated frames for a page table and ran to the shutdown
C18_Witness ==
    /\ Halted /\ Len(boot.steps) = 6 /\ boot.steps[6] = "shutdown"
    /\ pt.live /\ Len(pt.frames) = 3
    /\ boot.bss = "zero" /\ boot.heap = "ready" /\ boot.stvec = "__alltraps"

----------------------------------------------------------------------------
\* The effect of map and unmap on other page numbers, under Spec

\* C19 (as claimed): a map or unmap of vpn that returns leaves translate(v)
\* as it was for every other page number v.
C19_OthersUnchanged ==
    [][(last'.op \in {"map", "unmap"} /\ machine' = "running") =>
          \A v \in VPNs \ {last'.vpn} :
              translate(mem', pt', v) = translate(mem, pt, v)]_vars

\* C19, the part that holds: a map or unmap of vpn that returns leaves every
\* other page number v mapped or unmapped as it was, and translate(v) as it
\* was but for one case: where translate(v) was none because a directory of
\* v was missing, and map created that directory, it is now the empty entry.
C19_OtherMappingsKept ==
    [][(last'.op \in {"map", "unmap"} /\ machine' = "running") =>
          \A v \in VPNs \ {last'.vpn} :
              LET a == translate(mem, pt, v)
                  b == translate(mem', pt', v)
              IN /\ IsMapped(mem', pt', v) = IsMapped(mem, pt, v)
                 /\ \/ b = a
                    \/ last'.op = "map" /\ ~a.some /\ b = Some(PTEEmpty)]_vars

\* page 1 has been mapped next to page 0, which shares both of its
\* directory levels; page 512 has no final-level directory
C19_Witness ==
    /\ last.op = "map" /\ last.vpn = 1 /\ ~last.mapped /\ machine = "running"
    /\ IsMapped(mem, pt, 0) /\ IsMapped(mem, pt, 1)
    /\ translate(mem, pt, 512) = None

----------------------------------------------------------------------------
\* The trap handler's effect on the context, under SpecTrap

\* C20: the handler returns for a user environment call and a supervisor
\* timer interrupt only, with the context it was given; on an environment
\* call every general register but x10 and the status register keep their
\* entry values, the saved program counter is the entry's plus 4 and x10 is
\* the call's result; on a timer interrupt the context is the entry's and no
\* system call is dispatched.
C20_ContextFrame ==
    /\ returned => scause \in {"UserEnvCall", "SupervisorTimer"}
    /\ scause = "UserEnvCall" =>
          /\ \A r \in Regs \ {10} : cx.x[r] = entry.x[r]
          /\ cx.sstatus = entry.sstatus
          /\ returned => (cx.sepc = entry.sepc + 4 /\ cx.x[10] = ret)
    /\ scause = "SupervisorTimer" => (cx = entry /\ ~call.some)

\* getpid has returned 1 in x10, which held 99; x17 still holds the call number
C20_Witness ==
    /\ scause = "UserEnvCall" /\ returned /\ call.id = SYSCALL_GETPID
    /\ entry.x[10] = 99 /\ cx.x[10] = 1 /\ cx.x[17] = SYSCALL_GETPID
    /\ cx.x[11] = BufBase /\ cx.x[2] = entry.x[2]

----------------------------------------------------------------------------
\* The token and the view made from it, under SpecView

\* C21: for an owning table pt, after any maps and unmaps, the view
\* from_token(pt.token()) has pt's root and gives pt's result for translate
\* on every page number and for translate_va on every address, and so does
\* a view made earlier; the token has the mode tag 8 in its bits 60..63 and
\* the root page number in its bits 0..43.
C21_ViewAgrees ==
    pt.live =>
        LET v == from_token(Token(pt)) IN
        /\ v.root_ppn = pt.root_ppn
        /\ \A vpn \in VPNs : translate(mem, v, vpn) = translate(mem, pt, vpn)
        /\ \A va \in ViewVAs : translate_va(mem, v, va) = translate_va(mem, pt, va)
        /\ ShiftRight(Token(pt).hi, 60 - PPN_WIDTH) = SATP_MODE
        /\ Token(pt).lo = pt.root_ppn
        /\ view.live => view.root_ppn = pt.root_ppn
        /\ last.op = "view_translate" => last.res = translate(mem, pt, last.vpn)
        /\ last.op = "view_translate_va" =>
              \E va \in ViewVAs : /\ Floor(va) = last.vpn
                                  /\ last.res = translate_va(mem, pt, va)

\* translate_va through the view on an address of a page that is mapped to
\* the first frame of the pool
C21_Witness ==
    /\ pt.live /\ view.live /\ machine = "running"
    /\ last.op = "view_translate_va" /\ last.vpn = 1 /\ last.mapped
    /\ last.res = Some(PpnToPa(StartFrame) + 1)
    /\ translate_va(mem, pt, 4097) = last.res

====
